---- MODULE Spec2Model ----
(***************************************************************************)
(* A model of the TikTok ad library analyzer:                              *)
(*   - collect_ad_ids (tiktok_adlib_keyword_scraper.py): the date-chunked, *)
(*     paginated, deduplicating search traversal        (specification Spec) *)
(*   - parse_reach_value / parse_single_reach (tiktok_ad_volume_plot.py)   *)
(*                                                 (specification SpecParse) *)
(*   - load_and_process_ad_data                      (specification SpecLoad) *)
(*   - create_date_range_data + the group-and-sum of                       *)
(*     create_total_volume_plot                       (specification SpecAgg) *)
(*                                                                         *)
(* Conventions.  In collect_ad_ids a datetime is an instant counted in     *)
(* half days, and strftime keeps its calendar day; in the plot script a    *)
(* date is its day ordinal.  A Python str that the code inspects is a      *)
(* sequence of one-character strings.  A call returns [tag |-> "ok", val]  *)
(* or the exception it raises, [tag |-> "raise", exc].  Reach numbers are  *)
(* exact, in units of 1/Unit.                                              *)
(***************************************************************************)
EXTENDS Integers, Sequences, FiniteSets, TLC

VARIABLES
    \* ---- collect_ad_ids ----
    start_date_dt,  \* line 87
    current_date,   \* line 91
    chunk_start,    \* line 94
    chunk_end,      \* line 96
    offset,         \* line 100
    page_count,     \* line 101
    has_more,       \* line 102
    all_ads,        \* line 89: the collected [id, basic_info] entries
    seen_ids,       \* line 90
    resp,           \* line 121: outcome of the chunk's last request:
                    \* none/429/error/ok
    ads,            \* line 135: the ads of the chunk's last successful page
    slept,          \* seconds slept (time.sleep) by the last step
    chunk_log,      \* line 98: the (chunk_start, chunk_end) pairs announced
    exported,       \* line 165: the list written to the output file
    pc,             \* outer: line 93, inner: line 104, paged: line 146,
                    \* done: returned
    \* ---- parse_reach_value ----
    reach_str,      \* the argument
    reach_result,   \* the value returned, or the exception raised
    ppc,
    \* ---- load_and_process_ad_data ----
    data,           \* line 48: the decoded JSON list
    item_index,     \* line 56: position of the for loop
    ads_data,       \* line 50
    load_exc,       \* the exception that left the function, if any
    lpc,
    \* ---- create_date_range_data / create_total_volume_plot ----
    agg_input,      \* the ads_data argument
    ad_index,       \* line 107: position of the for loop
    agg_current,    \* line 108: current_date
    daily_data,     \* line 106
    daily_totals,   \* line 129
    apc

collectorVars == <<start_date_dt, current_date, chunk_start, chunk_end, offset,
                   page_count, has_more, all_ads, seen_ids, resp, ads,
                   slept, chunk_log, exported, pc>>
parseVars == <<reach_str, reach_result, ppc>>
loadVars == <<data, item_index, ads_data, load_exc, lpc>>
aggVars == <<agg_input, ad_index, agg_current, daily_data, daily_totals, apc>>
vars == <<collectorVars, parseVars, loadVars, aggVars>>

Min(a, b) == IF a <= b THEN a ELSE b

(***************************************************************************)
(* Bounds of the model.  The four configuration values below carry the     *)
(* names of the script's settings; the script sets them to 10, 1000, 10000 *)
(* and a lookback of twelve months, which are scaled down here.            *)
(***************************************************************************)
DATE_INCREMENT_DAYS == 2
MAX_PAGES == 3
MAX_TOTAL_ADS == 2
MaxSpan == 4
MaxPageLen == 2

\* Program constants, with the script's values.
MAX_ADS_PER_REQUEST == 20
FIXED_RATE_LIMIT_DELAY == 1
RATE_LIMIT_BACKOFF == 5

None == "None"
AdIds == {"a1", "a2", "a3"}

\* A datetime is an instant counted in half days; the time of day of
\* datetime.now() (line 85) is the second half.
TicksPerDay == 2
TimeOfDay == 1

\* timedelta(days=n)
timedelta(n) == n * TicksPerDay

\* Lines 85-86: max_date_dt = today - 1 day, on calendar day MaxSpan.
max_date_dt == MaxSpan * TicksPerDay + TimeOfDay

\* strftime("%Y%m%d") of a datetime: its calendar day, the time of day dropped.
strftime(dt) == dt \div TicksPerDay

\* Python truthiness of an ad id (a str or None).
Truthy(x) == x /= None /\ x /= ""

\* ad.get("ad", {}).get("id")
AdIdOf(ad) ==
    IF "ad" \in DOMAIN ad /\ "id" \in DOMAIN ad.ad THEN ad.ad.id ELSE None

\* The next-page offsets a response may state (it may also state none):
\* the pagination starts over, or moves on by one full page.
ServerOffsets == {0, MAX_ADS_PER_REQUEST}

\* The per-ad summaries a search page may hold.
AdSummaries ==
    {[ad |-> [id |-> i]] : i \in AdIds}
        \cup {[advertiser |-> [business_name |-> "n"]]}

SeqsUpTo(S, n) == UNION {[1..k -> S] : k \in 0..n}

\* A dict with no keys.
EmptyDict == [k \in {} |-> k]

\* dict.get(key, default)
Get(d, key, default) == IF key \in DOMAIN d THEN d[key] ELSE default

\* The "data" object of a 200 response, each key of which may be missing, in
\* the two parts the code reads one after the other: the ads (line 135), and
\* the next offset and the has-more flag (lines 146-147).
PageAds ==
    {EmptyDict} \cup {[ads |-> a] : a \in SeqsUpTo(AdSummaries, MaxPageLen)}
PageCursor ==
    {EmptyDict}
        \cup {[has_more |-> h] : h \in BOOLEAN}
        \cup {[offset |-> o] : o \in ServerOffsets}
        \cup {[has_more |-> h, offset |-> o] : h \in BOOLEAN, o \in ServerOffsets}

\* Lines 137-144: the loop over the ads of one page.
RECURSIVE CollectPage(_, _, _)
CollectPageDropSeen(pageAds, all, seen) ==
    IF pageAds = <<>> THEN [all |-> all, seen |-> seen]
    ELSE LET ad == Head(pageAds)
             ad_id == AdIdOf(ad)
         IN  IF Truthy(ad_id)
             THEN CollectPage(Tail(pageAds),
                              Append(all, [id |-> ad_id, basic_info |-> ad]),
                              seen \cup {ad_id})
             ELSE CollectPage(Tail(pageAds), all, seen)
CollectPage(pageAds, all, seen) ==
    IF pageAds = <<>> THEN [all |-> all, seen |-> seen]
    ELSE LET ad == Head(pageAds)
             ad_id == AdIdOf(ad)
         IN  IF Truthy(ad_id) /\ ad_id \notin seen
             THEN CollectPage(Tail(pageAds),
                              Append(all, [id |-> ad_id, basic_info |-> ad]),
                              seen \cup {ad_id})
             ELSE CollectPage(Tail(pageAds), all, seen)

\* The other scripts are separate programs: a step of this one leaves them alone.
OtherProgramsIdle == UNCHANGED <<parseVars, loadVars, aggVars>>

\* Line 104: the condition of the pagination loop.
PageLoopCond ==
    has_more /\ page_count < MAX_PAGES /\ Len(all_ads) < MAX_TOTAL_ADS

CollectorInit ==
    /\ start_date_dt \in {max_date_dt - timedelta(s) : s \in 1..MaxSpan}
    /\ current_date = start_date_dt
    /\ all_ads = <<>>
    /\ seen_ids = {}
    /\ pc = "outer"
    /\ exported = <<>>
    /\ chunk_log = <<>>
    /\ slept = 0
    /\ resp = "none"
    \* locals not yet assigned; never read before ChunkStart assigns them
    /\ chunk_start = strftime(start_date_dt)
    /\ chunk_end = strftime(start_date_dt)
    /\ offset = 0
    /\ page_count = 0
    /\ has_more = TRUE
    /\ ads = <<>>

\* Lines 93-102: the outer loop is entered for one more chunk.  resp and ads
\* still hold the previous chunk's last response in the script, but are dead
\* here (lines 121 and 135 assign them before any read): the model forgets them.
ChunkStart ==
    /\ OtherProgramsIdle
    /\ pc = "outer"
    /\ current_date < max_date_dt
    /\ chunk_start' = strftime(current_date)
    /\ chunk_end' =
         strftime(Min(current_date + timedelta(DATE_INCREMENT_DAYS - 1), max_date_dt))
    /\ chunk_log' = Append(chunk_log, <<chunk_start', chunk_end'>>)
    /\ offset' = 0
    /\ page_count' = 0
    /\ has_more' = TRUE
    /\ slept' = 0
    /\ pc' = "inner"
    /\ resp' = "none"
    /\ ads' = <<>>
    /\ UNCHANGED <<start_date_dt, current_date, all_ads, seen_ids, exported>>

\* Lines 104-126: one more request of the current chunk is sent, with the date
\* filter chunk_start..chunk_end and the current offset.
SendRequest ==
    /\ pc = "inner"
    /\ PageLoopCond
    /\ page_count' = page_count + 1

\* Lines 128-131: the answer is HTTP 429.
RateLimitedSkipPage ==
    /\ OtherProgramsIdle
    /\ SendRequest
    /\ resp' = "429"
    /\ slept' = RATE_LIMIT_BACKOFF
    /\ offset' = offset + MAX_ADS_PER_REQUEST
    /\ UNCHANGED <<start_date_dt, current_date, chunk_start, chunk_end,
                   has_more, all_ads, seen_ids, ads, chunk_log, exported, pc>>
RateLimited ==
    /\ OtherProgramsIdle
    /\ SendRequest
    /\ resp' = "429"
    /\ slept' = RATE_LIMIT_BACKOFF
    /\ UNCHANGED <<start_date_dt, current_date, chunk_start, chunk_end, offset,
                   has_more, all_ads, seen_ids, ads, chunk_log, exported, pc>>

\* Lines 133, 151-155: the request raises a RequestException; break, then the
\* next chunk.
RequestErrorAbortTerm ==
    /\ OtherProgramsIdle
    /\ SendRequest
    /\ resp' = "error"
    /\ slept' = 0
    /\ current_date' = max_date_dt
    /\ pc' = "outer"
    /\ UNCHANGED <<start_date_dt, chunk_start, chunk_end, offset, has_more,
                   all_ads, seen_ids, ads, chunk_log, exported>>
RequestError ==
    /\ OtherProgramsIdle
    /\ SendRequest
    /\ resp' = "error"
    /\ slept' = 0
    /\ current_date' = current_date + timedelta(DATE_INCREMENT_DAYS)
    /\ pc' = "outer"
    /\ UNCHANGED <<start_date_dt, chunk_start, chunk_end, offset, has_more,
                   all_ads, seen_ids, ads, chunk_log, exported>>

\* Lines 133-144: a page arrives and its ads are collected.
PageOk(d) ==
    /\ OtherProgramsIdle
    /\ SendRequest
    /\ resp' = "ok"
    /\ ads' = Get(d, "ads", <<>>)
    /\ LET r == CollectPage(ads', all_ads, seen_ids)
       IN  all_ads' = r.all /\ seen_ids' = r.seen
    /\ slept' = 0
    /\ pc' = "paged"
    /\ UNCHANGED <<start_date_dt, current_date, chunk_start, chunk_end, offset,
                   has_more, chunk_log, exported>>

\* Lines 149-150: the sleep after a page whose has_more is `more`.
SleepAfterPageAlways(more) == FIXED_RATE_LIMIT_DELAY
SleepAfterPage(more) == IF more THEN FIXED_RATE_LIMIT_DELAY ELSE 0

\* Lines 146-150: the page's cursor is read, and the delay slept.
PageAdvance(d) ==
    /\ OtherProgramsIdle
    /\ pc = "paged"
    /\ offset' = Get(d, "offset", offset + MAX_ADS_PER_REQUEST)
    /\ has_more' = Get(d, "has_more", FALSE)
    /\ slept' = SleepAfterPage(has_more')
    /\ pc' = "inner"
    /\ UNCHANGED <<start_date_dt, current_date, chunk_start, chunk_end,
                   page_count, all_ads, seen_ids, resp, ads, chunk_log,
                   exported>>

\* Lines 104, 155: the pagination loop ends; the next chunk.
PageLoopExit ==
    /\ OtherProgramsIdle
    /\ pc = "inner"
    /\ ~PageLoopCond
    /\ current_date' = current_date + timedelta(DATE_INCREMENT_DAYS)
    /\ slept' = 0
    /\ pc' = "outer"
    /\ UNCHANGED <<start_date_dt, chunk_start, chunk_end, offset, page_count,
                   has_more, all_ads, seen_ids, resp, ads, chunk_log,
                   exported>>

\* Lines 93, 157-168: the outer loop ends; the list is written.
Export ==
    /\ OtherProgramsIdle
    /\ pc = "outer"
    /\ ~(current_date < max_date_dt)
    /\ exported' = all_ads
    /\ slept' = 0
    /\ pc' = "done"
    /\ UNCHANGED <<start_date_dt, current_date, chunk_start, chunk_end, offset,
                   page_count, has_more, all_ads, seen_ids, resp, ads,
                   chunk_log>>

Idle == "idle"

ParseIdle == reach_str = Idle /\ reach_result = Idle /\ ppc = Idle
LoadIdle == data = Idle /\ item_index = Idle /\ ads_data = Idle
              /\ load_exc = Idle /\ lpc = Idle
AggIdle == agg_input = Idle /\ ad_index = Idle /\ agg_current = Idle
             /\ daily_data = Idle /\ daily_totals = Idle /\ apc = Idle

Init == CollectorInit /\ ParseIdle /\ LoadIdle /\ AggIdle

Next ==
    \/ ChunkStart
    \/ RateLimited
    \/ RequestError
    \/ \E d \in PageAds : PageOk(d)
    \/ \E d \in PageCursor : PageAdvance(d)
    \/ PageLoopExit
    \/ Export

Spec == Init /\ [][Next]_vars

(***************************************************************************)
(* Properties of collect_ad_ids, checked under Spec.                       *)
(***************************************************************************)

\* A request of the current chunk has been answered and the collector is back
\* at the head of the pagination loop.
Answered(status) == pc = "inner" /\ page_count > 0 /\ resp = status

\* C1: every ad identifier occurs at most once in the collected list, whatever
\* pages and chunks returned it (and seen_ids is exactly the identifiers of the
\* list).
C1_NoDuplicateIds ==
    /\ \A i, j \in 1..Len(all_ads) : all_ads[i].id = all_ads[j].id => i = j
    /\ seen_ids = {all_ads[i].id : i \in 1..Len(all_ads)}

\* C1's case: the first page of the second chunk returned a1 and then a2, and
\* the list holds a2 before a1: a2 was collected by the first chunk, was
\* returned again by the second, and is in the list once.
C1_Witness ==
    /\ Len(chunk_log) = 2
    /\ Answered("ok") /\ page_count = 1
    /\ Len(ads) = 2 /\ AdIdOf(ads[1]) = "a1" /\ AdIdOf(ads[2]) = "a2"
    /\ Len(all_ads) = 2 /\ all_ads[1].id = "a2" /\ all_ads[2].id = "a1"

ChunkDays(k) == chunk_log[k][1]..chunk_log[k][2]

\* C3: when the traversal is over (and the per-term cap did not stop the
\* queries), the chunks are consecutive, do not overlap, the last one ends at
\* max_date_dt, and every day from start_date_dt through max_date_dt lies in
\* exactly one chunk.
C3_ChunksPartitionRange ==
    (pc = "done" /\ Len(all_ads) < MAX_TOTAL_ADS) =>
        /\ \A k \in 1..(Len(chunk_log) - 1) :
               chunk_log[k + 1][1] = chunk_log[k][2] + 1
        /\ \A d \in strftime(start_date_dt)..strftime(max_date_dt) :
               Cardinality({k \in 1..Len(chunk_log) : d \in ChunkDays(k)}) = 1

\* C4: the collected list never holds more than MAX_TOTAL_ADS entries.
C4_CapRespected == Len(all_ads) <= MAX_TOTAL_ADS

IsPrefix(s, t) == Len(s) <= Len(t) /\ \A i \in 1..Len(s) : s[i] = t[i]

\* C9: a request failure other than 429 ends the chunk's pagination and nothing
\* else: the collected list is kept (it only ever grows), the traversal moves
\* to the next chunk, a chunk entered below the per-term cap is queried from
\* offset 0 with its own date filter, the run never stops before the export,
\* and the export writes the collected list.
C9_FailureEndsOnlyTheChunk ==
    /\ [](pc = "done" => exported = all_ads)
    /\ [](pc /= "done" => ENABLED Next)
    /\ [][ /\ IsPrefix(all_ads, all_ads')
           /\ (page_count' = page_count + 1 /\ resp' = "error") =>
                 /\ all_ads' = all_ads /\ seen_ids' = seen_ids
                 /\ pc' = "outer"
                 /\ current_date' = current_date + timedelta(DATE_INCREMENT_DAYS)
           /\ (pc = "outer" /\ pc' = "inner") =>
                 /\ chunk_start' = strftime(current_date)
                 /\ offset' = 0 /\ page_count' = 0 /\ has_more'
           /\ (pc = "inner" /\ page_count = 0 /\ Len(all_ads) < MAX_TOTAL_ADS) =>
                 /\ offset = 0 /\ chunk_start = strftime(current_date)
                 /\ page_count' = 1 /\ resp' /= "none"
         ]_vars

\* C9's case: the second request of the first chunk failed after its first
\* page had put an ad in the list; the ad is still there and a further chunk
\* is left to query.
C9_Witness ==
    /\ pc = "outer" /\ resp = "error" /\ page_count = 2
    /\ Len(chunk_log) = 1 /\ Len(all_ads) = 1
    /\ current_date < max_date_dt

\* C10 as stated: after the last page requested in a chunk no inter-request
\* delay is slept, whichever condition ends the chunk.
C10_NoDelayAfterLastPage ==
    (Answered("ok") /\ ~PageLoopCond) => slept /= FIXED_RATE_LIMIT_DELAY

\* C10 amended: the inter-request delay is slept after exactly the successful
\* pages that declare has_more; after a chunk's last page it is skipped when
\* has_more is false, and slept when the page cap or the per-term cap ends the
\* chunk.
C10_DelayIffHasMore ==
    (slept = FIXED_RATE_LIMIT_DELAY) <=> (Answered("ok") /\ has_more)

\* C10's case: the last page of a chunk declared has_more false and no delay
\* was slept.
C10_Witness ==
    Answered("ok") /\ ~has_more /\ slept = 0 /\ Len(ads) > 0

(***************************************************************************)
(* tiktok_ad_volume_plot.py.  Python values are tagged with their type:    *)
(* None, a str (its characters), a dict (a function of its keys).  A call  *)
(* ends in Ok(value) or in Raise(exception).                               *)
(***************************************************************************)
PyNone == [type |-> "NoneType"]
PyStr(chars) == [type |-> "str", chars |-> chars]
PyDict(items) == [type |-> "dict", items |-> items]

Ok(v) == [tag |-> "ok", val |-> v]
Raise(e) == [tag |-> "raise", exc |-> e]

\* Reach numbers are kept exactly, as multiples of 1/Unit: one decimal digit
\* and a halving fit.
Unit == 2 * 10

DigitChars == {"0", "1", "2", "3", "4", "5", "6", "7", "8", "9"}
DigitVal(c) ==
    CASE c = "0" -> 0 [] c = "1" -> 1 [] c = "2" -> 2 [] c = "3" -> 3
      [] c = "4" -> 4 [] c = "5" -> 5 [] c = "6" -> 6 [] c = "7" -> 7
      [] c = "8" -> 8 [] c = "9" -> 9

Contains(s, c) == \E i \in 1..Len(s) : s[i] = c
IndexOf(s, c) == CHOOSE i \in 1..Len(s) : s[i] = c /\ \A j \in 1..(i - 1) : s[j] /= c

\* str.upper(), on the letters the inputs hold.
Upper(s) ==
    [i \in 1..Len(s) |->
        CASE s[i] = "k" -> "K" [] s[i] = "m" -> "M" [] s[i] = "x" -> "X"
          [] OTHER -> s[i]]

\* str.replace(c, '')
Remove(s, c) == SelectSeq(s, LAMBDA ch : ch /= c)

\* str.split(c)
RECURSIVE Split(_, _)
Split(s, c) ==
    IF ~Contains(s, c) THEN <<s>>
    ELSE LET i == IndexOf(s, c)
         IN  <<SubSeq(s, 1, i - 1)>> \o Split(SubSeq(s, i + 1, Len(s)), c)

\* The number a string of digits denotes.
RECURSIVE DigitsVal(_)
DigitsVal(s) ==
    IF s = <<>> THEN 0
    ELSE 10 * DigitsVal(SubSeq(s, 1, Len(s) - 1)) + DigitVal(s[Len(s)])

RECURSIVE Pow10(_)
Pow10(n) == IF n = 0 THEN 1 ELSE 10 * Pow10(n - 1)

\* float(str): digits with at most one decimal point and at least one digit;
\* anything else over the inputs' alphabet is a ValueError.
Float(s) ==
    LET dots == {i \in 1..Len(s) : s[i] = "."}
        wellFormed ==
            /\ \A i \in 1..Len(s) : s[i] \in DigitChars \cup {"."}
            /\ Cardinality(dots) <= 1
            /\ \E i \in 1..Len(s) : s[i] \in DigitChars
        whole == IF dots = {} THEN s ELSE SubSeq(s, 1, IndexOf(s, ".") - 1)
        frac == IF dots = {} THEN <<>> ELSE SubSeq(s, IndexOf(s, ".") + 1, Len(s))
    IN  IF wellFormed
        THEN Ok(DigitsVal(whole) * Unit + (DigitsVal(frac) * Unit) \div Pow10(Len(frac)))
        ELSE Raise("ValueError")

\* value * factor, or the exception that value is.
Times(r, factor) == IF r.tag = "ok" THEN Ok(r.val * factor) ELSE r

\* parse_single_reach, lines 24-31.
parse_single_reach_MisK(value_str) ==
    IF Contains(value_str, "K") THEN Times(Float(Remove(value_str, "K")), 1000)
    ELSE IF Contains(value_str, "M") THEN Times(Float(Remove(value_str, "M")), 1000)
    ELSE Float(value_str)
parse_single_reach(value_str) ==
    IF Contains(value_str, "K") THEN Times(Float(Remove(value_str, "K")), 1000)
    ELSE IF Contains(value_str, "M") THEN Times(Float(Remove(value_str, "M")), 1000000)
    ELSE Float(value_str)

\* parse_reach_value, lines 6-22.
parse_reach_value(reach_arg) ==
    IF reach_arg.type = "NoneType" THEN Ok(0)
    ELSE IF reach_arg.type /= "str" THEN Raise("AttributeError")
    ELSE IF reach_arg.chars = <<>> THEN Ok(0)
    ELSE LET s == Remove(Upper(reach_arg.chars), ",")
         IN  IF Contains(s, "-")
             THEN LET parts == Split(s, "-")
                      min_val == parse_single_reach(parts[1])
                      max_val == parse_single_reach(parts[2])
                  IN  IF min_val.tag /= "ok" THEN min_val
                      ELSE IF max_val.tag /= "ok" THEN max_val
                      ELSE Ok((min_val.val + max_val.val) \div 2)
             ELSE parse_single_reach(s)

(***************************************************************************)
(* SpecParse: parse_reach_value on every reach argument of a bounded set.  *)
(***************************************************************************)
\* The most '-'-separated parts an argument holds.
MaxParts == 2

\* Numerals, with the number each denotes (in units of 1/Unit).
Numerals ==
    {[s |-> <<"0">>, v |-> 0],
     [s |-> <<"1">>, v |-> 20],
     [s |-> <<"5">>, v |-> 100],
     [s |-> <<"1", "0">>, v |-> 200],
     [s |-> <<"1", ".", "2">>, v |-> 24],
     [s |-> <<"2", ".", "5">>, v |-> 50]}

\* The three single forms of a reach string: N, NK, NM.
SingleForms ==
    {[s |-> n.s, v |-> n.v] : n \in Numerals}
        \cup {[s |-> n.s \o <<"K">>, v |-> n.v * 1000] : n \in Numerals}
        \cup {[s |-> n.s \o <<"M">>, v |-> n.v * 1000000] : n \in Numerals}

\* Other parts: lower case, a thousands separator, and strings that are no
\* number.
OtherParts ==
    {<<"5", "k">>, <<"2", ".", "5", "m">>, <<"1", ",", "0", "K">>,
     <<>>, <<"x">>, <<"K">>, <<"1", "K", "M">>, <<"1", ".", "2", ".", "5">>, <<".">>}

ReachParts == {f.s : f \in SingleForms} \cup OtherParts

RECURSIVE Joined(_)
\* The strings of n parts joined by '-'.
Joined(n) ==
    IF n = 1 THEN ReachParts
    ELSE {a \o <<"-">> \o b : a \in Joined(n - 1), b \in ReachParts}

ReachArgs ==
    {PyNone} \cup {PyStr(c) : c \in UNION {Joined(n) : n \in 1..MaxParts}}

ParseInit ==
    /\ reach_str \in ReachArgs
    /\ reach_result = Idle
    /\ ppc = "call"

ParseCall ==
    /\ ppc = "call"
    /\ reach_result' = parse_reach_value(reach_str)
    /\ ppc' = "returned"
    /\ UNCHANGED <<reach_str, collectorVars, loadVars, aggVars>>

CollectorIdle ==
    /\ start_date_dt = Idle /\ current_date = Idle /\ chunk_start = Idle
    /\ chunk_end = Idle /\ offset = Idle /\ page_count = Idle
    /\ has_more = Idle /\ all_ads = Idle /\ seen_ids = Idle /\ resp = Idle
    /\ ads = Idle /\ slept = Idle /\ chunk_log = Idle /\ exported = Idle
    /\ pc = Idle

InitParse == ParseInit /\ CollectorIdle /\ LoadIdle /\ AggIdle
NextParse == ParseCall
SpecParse == InitParse /\ [][NextParse]_vars

\* C8: parse_reach_value returns N*1000 for 'NK', N*1,000,000 for 'NM', N for
\* a plain number 'N', the arithmetic mean of the two endpoints for 'A-B' with
\* A and B of these forms, and 0 for an empty or missing argument.
C8_ParseReachForms ==
    ppc = "returned" =>
        /\ \A f \in SingleForms :
               reach_str = PyStr(f.s) => reach_result = Ok(f.v)
        /\ \A a, b \in SingleForms :
               reach_str = PyStr(a.s \o <<"-">> \o b.s) =>
                   /\ reach_result.tag = "ok"
                   /\ 2 * reach_result.val = a.v + b.v
        /\ reach_str \in {PyNone, PyStr(<<>>)} => reach_result = Ok(0)

\* C8's case: '1.2K-5M' has been parsed to (1200 + 5000000) / 2.
C8_Witness ==
    /\ ppc = "returned"
    /\ reach_str = PyStr(<<"1", ".", "2", "K", "-", "5", "M">>)
    /\ reach_result = Ok(2500600 * Unit)

(***************************************************************************)
(* load_and_process_ad_data, lines 37-94.                                  *)
(***************************************************************************)
PyList(elems) == [type |-> "list", elems |-> elems]

\* d[key]
Subscript(d, key) ==
    IF d.type /= "dict" THEN Raise("TypeError")
    ELSE IF key \in DOMAIN d.items THEN Ok(d.items[key])
    ELSE Raise("KeyError")

\* key in d, for a dict d
In(key, d) == key \in DOMAIN d.items

\* d.get(key, default), for a dict d
GetOr(d, key, default) == Get(d.items, key, default)

IsLeap(y) == (y % 4 = 0 /\ y % 100 /= 0) \/ y % 400 = 0
DaysInMonth(y, m) ==
    IF m = 2 THEN (IF IsLeap(y) THEN 29 ELSE 28)
    ELSE IF m \in {4, 6, 9, 11} THEN 30 ELSE 31
RECURSIVE DaysBeforeMonth(_, _)
DaysBeforeMonth(y, m) ==
    IF m = 1 THEN 0 ELSE DaysBeforeMonth(y, m - 1) + DaysInMonth(y, m - 1)

\* date(y, m, d).toordinal()
Ordinal(y, m, d) ==
    LET p == y - 1
    IN  p * 365 + p \div 4 - p \div 100 + p \div 400 + DaysBeforeMonth(y, m) + d

\* parse_date, lines 33-35: datetime.strptime(date_str, '%Y%m%d'), as the
\* day ordinal.  The inputs hold eight characters or none that is a digit.
parse_date(date_str) ==
    IF date_str.type /= "str" THEN Raise("TypeError")
    ELSE LET c == date_str.chars
             y == DigitsVal(SubSeq(c, 1, 4))
             m == DigitsVal(SubSeq(c, 5, 6))
             d == DigitsVal(SubSeq(c, 7, 8))
         IN  IF /\ Len(c) = 8
                /\ \A i \in 1..8 : c[i] \in DigitChars
                /\ y >= 1 /\ m \in 1..12 /\ d \in 1..DaysInMonth(y, m)
             THEN Ok(Ordinal(y, m, d))
             ELSE Raise("ValueError")

Max(a, b) == IF a >= b THEN a ELSE b

\* Line 78: sum(parse_reach_value(v) for v in country_reach.values())
RECURSIVE SumReach(_, _)
SumReach(country_reach, keys) ==
    IF keys = {} THEN Ok(0)
    ELSE LET k == CHOOSE x \in keys : TRUE
             v == parse_reach_value(country_reach[k])
             rest == SumReach(country_reach, keys \ {k})
         IN  IF v.tag /= "ok" THEN v
             ELSE IF rest.tag /= "ok" THEN rest
             ELSE Ok(v.val + rest.val)

\* Lines 83-89: the record appended for an ad.
AdRecordFirstDateTwice(ad_id, first_shown, last_shown, reach_volume, advertiser_name) ==
    [ad_id |-> ad_id, first_shown |-> first_shown, last_shown |-> first_shown,
     reach_volume |-> reach_volume, advertiser |-> advertiser_name]
AdRecord(ad_id, first_shown, last_shown, reach_volume, advertiser_name) ==
    [ad_id |-> ad_id, first_shown |-> first_shown, last_shown |-> last_shown,
     reach_volume |-> reach_volume, advertiser |-> advertiser_name]

\* Lines 80-89: the record is made of the parsed values, unless parsing a
\* reach string has raised.
MakeRecord(ad_id, first_shown, last_shown, global_reach, total_country_reach, advertiser_name) ==
    IF global_reach.tag /= "ok" THEN global_reach
    ELSE IF total_country_reach.tag /= "ok" THEN total_country_reach
    ELSE Ok(AdRecord(ad_id, first_shown, last_shown,
                     Max(global_reach.val, total_country_reach.val),
                     advertiser_name))

\* Lines 75-78: the global reach and the sum of the reach by country.
ParseReach(ad_id, first_shown, last_shown, reach_info, advertiser_name) ==
    MakeRecord(ad_id, first_shown, last_shown,
               parse_reach_value(GetOr(reach_info, "unique_users_seen", PyStr(<<"0">>))),
               SumReach(GetOr(reach_info, "unique_users_seen_by_country",
                              PyDict(EmptyDict)).items,
                        DOMAIN GetOr(reach_info, "unique_users_seen_by_country",
                                     PyDict(EmptyDict)).items),
               advertiser_name)

\* Lines 72-81, once the two dates are parsed or have raised.
WithDates(ad_info, advertiser_info, first_shown, last_shown) ==
    IF first_shown.tag /= "ok" THEN first_shown
    ELSE IF last_shown.tag /= "ok" THEN last_shown
    ELSE ParseReach(ad_info.items["id"], first_shown.val, last_shown.val,
                    GetOr(ad_info, "reach", PyDict(EmptyDict)),
                    GetOr(advertiser_info, "business_name", "Unknown"))

\* Line 73: parse_date(ad_info['last_shown_date']); the subscript may raise.
ParseLastShown(last_raw) ==
    IF last_raw.tag = "ok" THEN parse_date(last_raw.val) ELSE last_raw

\* Lines 71-89: the body of the try block once ad_info and advertiser_info are
\* known and the entry has not been skipped by a continue.
BuildRecord(ad_info, advertiser_info) ==
    WithDates(ad_info, advertiser_info,
              parse_date(ad_info.items["first_shown_date"]),
              ParseLastShown(Subscript(ad_info, "last_shown_date")))

\* Lines 58-89: the try block for one entry: Ok(record) when a record is
\* appended, Ok(None) when a continue skips the entry, or the exception raised.
TryItem(item) ==
    LET nested == In("data", item)
        ad_raw == IF nested THEN Subscript(item.items["data"], "ad")
                  ELSE Ok(GetOr(item, "ad", item))
        advertiser_info ==
            IF nested THEN GetOr(item.items["data"], "advertiser", PyDict(EmptyDict))
            ELSE GetOr(item, "advertiser", PyDict(EmptyDict))
        code == IF In("error", item) THEN Subscript(item.items["error"], "code")
                ELSE Ok("ok")
    IN  IF ad_raw.tag /= "ok" THEN ad_raw
        ELSE IF code.tag /= "ok" THEN code
        ELSE IF code.val /= "ok" THEN Ok(PyNone)
        ELSE IF ~In("id", ad_raw.val) \/ ~In("first_shown_date", ad_raw.val)
             THEN Ok(PyNone)
        ELSE BuildRecord(ad_raw.val, advertiser_info)

\* Lines 57, 67, 69, 83-92: what becomes of the try block's result.
Outcome(r) ==
    IF r.tag = "ok"
    THEN (IF r.val = PyNone THEN [tag |-> "skip"]
          ELSE [tag |-> "append", rec |-> r.val])
    ELSE IF r.exc \in {"KeyError", "ValueError"} THEN [tag |-> "skip"]
    ELSE r

\* Lines 57-92: one iteration of the loop: "append", "skip" (a continue, or a
\* KeyError or ValueError caught by line 90), or "raise" (any other exception
\* leaves the function).
LoopBody(item) == Outcome(TryItem(item))

\* ---- the entries of the input file ----
D20240101 == <<"2", "0", "2", "4", "0", "1", "0", "1">>
D20240102 == <<"2", "0", "2", "4", "0", "1", "0", "2">>
D20240103 == <<"2", "0", "2", "4", "0", "1", "0", "3">>
D20240230 == <<"2", "0", "2", "4", "0", "2", "3", "0">>

Acme == PyDict([business_name |-> "Acme"])

\* Well-formed ads.  Ad3's dates are in the wrong order.
Ad1 == PyDict([id |-> "A1", first_shown_date |-> PyStr(D20240101),
               last_shown_date |-> PyStr(D20240103),
               reach |-> PyDict([unique_users_seen |-> PyStr(<<"1", "0", "K">>)])])
Ad2 == PyDict([id |-> "A2", first_shown_date |-> PyStr(D20240102),
               last_shown_date |-> PyStr(D20240102),
               reach |-> PyDict([unique_users_seen |-> PyStr(<<"5", "K">>),
                                 unique_users_seen_by_country |->
                                     PyDict([NL |-> PyStr(<<"1", "0", "K">>),
                                             DE |-> PyStr(<<"1", ".", "2", "K", "-", "5", "K">>)])])])
Ad3 == PyDict([id |-> "A3", first_shown_date |-> PyStr(D20240103),
               last_shown_date |-> PyStr(D20240101)])
\* Malformed ads: no last date, no identifier, a date that is none, reach
\* strings that are no number.
Ad4 == PyDict([id |-> "A4", first_shown_date |-> PyStr(D20240101)])
Ad5 == PyDict([first_shown_date |-> PyStr(D20240101),
               last_shown_date |-> PyStr(D20240102)])
Ad6 == PyDict([id |-> "A6", first_shown_date |-> PyStr(D20240230),
               last_shown_date |-> PyStr(D20240103)])
Ad7 == PyDict([id |-> "A7", first_shown_date |-> PyStr(D20240101),
               last_shown_date |-> PyStr(D20240102),
               reach |-> PyDict([unique_users_seen |-> PyStr(<<"x">>)])])
Ad8 == PyDict([id |-> "A8", first_shown_date |-> PyStr(D20240101),
               last_shown_date |-> PyStr(D20240102),
               reach |-> PyDict([unique_users_seen |-> PyStr(<<"-", "5">>)])])

\* Entries from which a record is to be made: the nested detail shape, the
\* flat shape, the bare ad.
WellFormedItems ==
    {PyDict([data |-> PyDict([ad |-> Ad1, advertiser |-> Acme]),
             error |-> PyDict([code |-> "ok"])]),
     PyDict([ad |-> Ad2, advertiser |-> Acme]),
     Ad3}

\* Entries to be skipped: malformed ads, an error status other than ok, an
\* error response without data, an error object without a code.
SkippedItems ==
    {PyDict([ad |-> Ad4]),
     Ad5,
     PyDict([data |-> PyDict([ad |-> Ad6])]),
     PyDict([ad |-> Ad7, advertiser |-> Acme]),
     Ad8,
     PyDict([data |-> PyDict([ad |-> Ad1]),
             error |-> PyDict([code |-> "internal_error"])]),
     PyDict([data |-> PyDict(EmptyDict),
             error |-> PyDict([code |-> "invalid_params"])]),
     PyDict([error |-> PyDict([message |-> "m"])])}

\* The entry fetch_ad_details returns for a failed fetch
\* (tiktok_adlib_ad_details.py, line 74).
FailedFetch == PyDict([ad_id |-> "A9", error |-> PyStr(<<"x">>)])

Items == WellFormedItems \cup SkippedItems \cup {FailedFetch}

\* The most entries of an input file.
MaxItems == 2

\* Lines 47-50: the decoded file is a list of entries or a single entry.
LoadInit ==
    /\ data \in {PyList(l) : l \in SeqsUpTo(Items, MaxItems)} \cup Items
    /\ ads_data = <<>>
    /\ item_index = 0
    /\ load_exc = None
    /\ lpc = "start"

LoadFrame == UNCHANGED <<collectorVars, parseVars, aggVars>>

\* Lines 53-54: a single object is wrapped in a list.
LoadWrap ==
    /\ lpc = "start"
    /\ data' = IF data.type = "dict" THEN PyList(<<data>>) ELSE data
    /\ item_index' = 1
    /\ lpc' = "loop"
    /\ UNCHANGED <<ads_data, load_exc>>
    /\ LoadFrame

LoadNext == lpc = "loop" /\ item_index <= Len(data.elems)

\* Lines 83-89: the entry's record is appended.
LoadAppend ==
    /\ LoadNext
    /\ LET r == LoopBody(data.elems[item_index])
       IN  /\ r.tag = "append"
           /\ ads_data' = Append(ads_data, r.rec)
    /\ item_index' = item_index + 1
    /\ UNCHANGED <<data, load_exc, lpc>>
    /\ LoadFrame

\* Lines 67, 69, 92: the entry is skipped.
LoadSkip ==
    /\ LoadNext
    /\ LoopBody(data.elems[item_index]).tag = "skip"
    /\ item_index' = item_index + 1
    /\ UNCHANGED <<data, ads_data, load_exc, lpc>>
    /\ LoadFrame

\* An exception that line 90 does not catch leaves the function.
LoadRaise ==
    /\ LoadNext
    /\ LET r == LoopBody(data.elems[item_index])
       IN  /\ r.tag = "raise"
           /\ load_exc' = r.exc
    /\ lpc' = "raised"
    /\ UNCHANGED <<data, item_index, ads_data>>
    /\ LoadFrame

\* Line 94.
LoadReturn ==
    /\ lpc = "loop"
    /\ item_index > Len(data.elems)
    /\ lpc' = "returned"
    /\ UNCHANGED <<data, item_index, ads_data, load_exc>>
    /\ LoadFrame

InitLoad == LoadInit /\ CollectorIdle /\ ParseIdle /\ AggIdle
NextLoad ==
    \/ LoadWrap
    \/ LoadAppend
    \/ LoadSkip
    \/ LoadRaise
    \/ LoadReturn
SpecLoad == InitLoad /\ [][NextLoad]_vars

\* The identifier of the ad an entry carries.
ItemAdId(item) ==
    IF "data" \in DOMAIN item.items THEN item.items.data.items.ad.items.id
    ELSE IF "ad" \in DOMAIN item.items THEN item.items.ad.items.id
    ELSE item.items.id

RECURSIVE WellFormedIds(_)
\* The identifiers of the well-formed entries of a list, in order.
WellFormedIds(l) ==
    IF l = <<>> THEN <<>>
    ELSE (IF Head(l) \in WellFormedItems THEN <<ItemAdId(Head(l))>> ELSE <<>>)
             \o WellFormedIds(Tail(l))

\* C5: no entry aborts the batch: the function returns, with the records of
\* all the well-formed entries, whatever malformed or errored entries
\* (failed-fetch entries included) the input holds.
C5_NoEntryAbortsBatch ==
    /\ lpc /= "raised"
    /\ lpc = "returned" =>
           [i \in 1..Len(ads_data) |-> ads_data[i].ad_id] = WellFormedIds(data.elems)

\* The ad of the input whose identifier a record carries.
SourceAd(rec) == CHOOSE ad \in {Ad1, Ad2, Ad3} : ad.items.id = rec.ad_id

RECURSIVE LexLeq(_, _)
\* s <= t for two strings of digits of the same length.
LexLeq(s, t) ==
    IF s = <<>> THEN TRUE
    ELSE IF Head(s) /= Head(t) THEN DigitVal(Head(s)) < DigitVal(Head(t))
    ELSE LexLeq(Tail(s), Tail(t))

\* C6 as stated: every record returned has first-shown <= last-shown and a
\* reach-volume >= 0.
C6_RecordInvariant ==
    \A i \in 1..Len(ads_data) :
        /\ ads_data[i].first_shown <= ads_data[i].last_shown
        /\ ads_data[i].reach_volume >= 0

\* C6 amended: every record returned has a reach-volume >= 0, and carries the
\* payload's two dates as given: its first-shown is <= its last-shown exactly
\* when the payload's first_shown_date is not after its last_shown_date.
C6_ReachNonNegativeDatesAsGiven ==
    \A i \in 1..Len(ads_data) :
        LET rec == ads_data[i]
            ad == SourceAd(rec)
        IN  /\ rec.reach_volume >= 0
            /\ (rec.first_shown <= rec.last_shown) <=>
                   LexLeq(ad.items.first_shown_date.chars,
                          ad.items.last_shown_date.chars)

\* C6's case: the function has returned a record for the payload whose
\* first_shown_date 20240103 is after its last_shown_date 20240101.
C6_Witness ==
    /\ lpc = "returned"
    /\ \E i \in 1..Len(ads_data) :
           /\ ads_data[i].ad_id = "A3"
           /\ ads_data[i].first_shown = 738888
           /\ ads_data[i].last_shown = 738886
           /\ ads_data[i].reach_volume = 0

(***************************************************************************)
(* create_date_range_data, lines 96-117, and the group-and-sum of          *)
(* create_total_volume_plot, line 129.                                     *)
(***************************************************************************)
\* The most records of a list, and the last calendar day (days are 1..MaxDay).
MaxAds == 2
MaxDay == 3

\* The identifier of the record at each position, and the reach volumes.
AggIds == <<"A1", "A2", "A3", "A4">>
ReachVolumes == {1, 2}

\* Line 182: the two functions are called with a list that is not empty.  A
\* record carries its dates as load_and_process_ad_data took them from the
\* payload, in either order.
AggInit ==
    /\ agg_input \in
           UNION {{[i \in 1..n |-> [ad_id |-> AggIds[i],
                                    first_shown |-> f[i][1],
                                    last_shown |-> f[i][2],
                                    reach_volume |-> f[i][3],
                                    advertiser |-> "Acme"]] :
                       f \in [1..n -> (1..MaxDay) \X (1..MaxDay) \X ReachVolumes]} :
                  n \in 1..MaxAds}
    /\ ad_index = 1
    /\ agg_current = None
    /\ daily_data = <<>>
    /\ daily_totals = None
    /\ apc = "for"

AggFrame == UNCHANGED <<collectorVars, parseVars, loadVars>>

\* Lines 107-108: the next record of the list.
ForNext ==
    /\ apc = "for"
    /\ ad_index <= Len(agg_input)
    /\ agg_current' = agg_input[ad_index].first_shown
    /\ apc' = "while"
    /\ UNCHANGED <<agg_input, ad_index, daily_data, daily_totals>>
    /\ AggFrame

WhileCondExclusive(ad, current) == current < ad.last_shown
\* Line 109.
WhileCond(ad, current) == current <= ad.last_shown

\* Lines 109-116: one row for the current day.
EmitRow ==
    /\ apc = "while"
    /\ LET ad == agg_input[ad_index]
       IN  /\ WhileCond(ad, agg_current)
           /\ daily_data' = Append(daily_data,
                  [date |-> agg_current, ad_id |-> ad.ad_id,
                   reach_volume |-> ad.reach_volume, advertiser |-> ad.advertiser])
    /\ agg_current' = agg_current + 1
    /\ UNCHANGED <<agg_input, ad_index, daily_totals, apc>>
    /\ AggFrame

\* Line 109: the record's last day is behind.
WhileExit ==
    /\ apc = "while"
    /\ ~WhileCond(agg_input[ad_index], agg_current)
    /\ ad_index' = ad_index + 1
    /\ apc' = "for"
    /\ UNCHANGED <<agg_input, agg_current, daily_data, daily_totals>>
    /\ AggFrame

RECURSIVE SumWhere(_, _)
\* The sum of reach_volume over the rows of a date.
SumWhere(rows, date) ==
    IF rows = <<>> THEN 0
    ELSE (IF Head(rows).date = date THEN Head(rows).reach_volume ELSE 0)
             + SumWhere(Tail(rows), date)

RECURSIVE SortedGroups(_, _)
\* The groups of groupby('date'), in ascending order of the date.
SortedGroups(rows, dates) ==
    IF dates = {} THEN <<>>
    ELSE LET d == CHOOSE x \in dates : \A y \in dates : x <= y
         IN  <<[date |-> d, reach_volume |-> SumWhere(rows, d)]>>
                 \o SortedGroups(rows, dates \ {d})

\* Lines 117 and 129: df.groupby('date')['reach_volume'].sum().reset_index()
GroupBy ==
    /\ apc = "for"
    /\ ad_index > Len(agg_input)
    /\ daily_data /= <<>>
    /\ daily_totals' =
           SortedGroups(daily_data, {daily_data[i].date : i \in 1..Len(daily_data)})
    /\ apc' = "grouped"
    /\ UNCHANGED <<agg_input, ad_index, agg_current, daily_data>>
    /\ AggFrame

\* Lines 117 and 129: a DataFrame made of no row has no column 'date', and
\* groupby raises KeyError.
GroupByNoRows ==
    /\ apc = "for"
    /\ ad_index > Len(agg_input)
    /\ daily_data = <<>>
    /\ daily_totals' = Raise("KeyError")
    /\ apc' = "raised"
    /\ UNCHANGED <<agg_input, ad_index, agg_current, daily_data>>
    /\ AggFrame

InitAgg == AggInit /\ CollectorIdle /\ ParseIdle /\ LoadIdle
NextAgg ==
    \/ ForNext
    \/ EmitRow
    \/ WhileExit
    \/ GroupBy
    \/ GroupByNoRows
SpecAgg == InitAgg /\ [][NextAgg]_vars

\* The records of the list active on a day.
ActiveOn(day) ==
    {i \in 1..Len(agg_input) :
        agg_input[i].first_shown <= day /\ day <= agg_input[i].last_shown}

RECURSIVE SumReachOf(_)
SumReachOf(indices) ==
    IF indices = {} THEN 0
    ELSE LET i == CHOOSE x \in indices : TRUE
         IN  agg_input[i].reach_volume + SumReachOf(indices \ {i})

\* The daily series as specified: ascending dates, one entry for
\* each day on which a record is active and for no other, the entry's total
\* the sum of the reach-volume of the records active on its day, and each
\* record on as many rows as its span has days.
SeriesAsClaimed ==
    /\ \A k \in 1..(Len(daily_totals) - 1) :
           daily_totals[k].date < daily_totals[k + 1].date
    /\ {daily_totals[k].date : k \in 1..Len(daily_totals)}
           = {day \in 1..MaxDay : ActiveOn(day) /= {}}
    /\ \A k \in 1..Len(daily_totals) :
           daily_totals[k].reach_volume = SumReachOf(ActiveOn(daily_totals[k].date))
    /\ \A i \in 1..Len(agg_input) :
           Cardinality({j \in 1..Len(daily_data) : daily_data[j].ad_id = AggIds[i]})
               = Max(0, agg_input[i].last_shown - agg_input[i].first_shown + 1)

AggDone == apc \in {"grouped", "raised"}

\* C7 as stated: for every list of AdRecords the two steps yield the daily
\* series: one entry per day on which a record is active, ascending, each
\* total the sum of the reach-volume of the records active that day.
C7_DailySeriesForEveryList ==
    AggDone => apc = "grouped" /\ SeriesAsClaimed

\* C7 amended: when a record of the list has first-shown <= last-shown, the
\* two steps yield that series, a record with first-shown after last-shown
\* contributing to no day; when no record has, no row is emitted and the
\* group-and-sum raises KeyError.
C7_DailySeriesWhenRowsEmitted ==
    AggDone =>
        IF \E i \in 1..Len(agg_input) :
               agg_input[i].first_shown <= agg_input[i].last_shown
        THEN apc = "grouped" /\ SeriesAsClaimed
        ELSE apc = "raised" /\ daily_data = <<>>
                 /\ daily_totals = Raise("KeyError")

\* C7's case: two records overlap on day 2 only, one of them spanning the
\* three days, and the series has the three days with the sum on day 2.
C7_Witness ==
    /\ apc = "grouped"
    /\ Len(agg_input) = 2
    /\ agg_input[1].first_shown = 1 /\ agg_input[1].last_shown = 3
    /\ agg_input[1].reach_volume = 1
    /\ agg_input[2].first_shown = 2 /\ agg_input[2].last_shown = 2
    /\ agg_input[2].reach_volume = 2
    /\ Len(daily_data) = 4
    /\ daily_totals = <<[date |-> 1, reach_volume |-> 1],
                        [date |-> 2, reach_volume |-> 3],
                        [date |-> 3, reach_volume |-> 1]>>

====
